---- MODULE Spec2Model ----
(***************************************************************************)
(* Model of the Bun CORS proxy of src/index.ts: handleProxyRequest, the    *)
(* header allowlist / exposelist, the JSON error envelopes and the         *)
(* outermost handler of Bun.serve.                                         *)
(*                                                                         *)
(* Strings are sequences of tokens.  Paths and user-agents are sequences   *)
(* of single characters, so that the two regular expressions of the source *)
(* (the path split and the git/ test) and the leading-slash replace are    *)
(* computed character by character.  Fixed literals are one token each.    *)
(* A Headers object is a function whose domain is the set of (lower-case)  *)
(* names it holds; Headers.get(n) == null is  n \notin DOMAIN h.           *)
(***************************************************************************)
EXTENDS Integers, Sequences, FiniteSets, TLC

\* ------------------------------------------------------------------ bounds

\* Longest request path (after the leading "/") the environment sends.
MaxPathLen == 3

\* ------------------------------------------------------- program constants

ALLOW_HEADERS ==
  << "accept-encoding", "accept-language", "accept",
     "access-control-allow-origin", "authorization", "cache-control",
     "connection", "content-length", "content-type", "dnt", "pragma",
     "range", "referer", "user-agent", "x-authorization",
     "x-http-method-override", "x-requested-with" >>

EXPOSE_HEADERS ==
  << "accept-ranges", "age", "cache-control", "content-length",
     "content-language", "content-type", "date", "etag", "expires",
     "last-modified", "pragma", "server", "transfer-encoding", "vary",
     "x-github-request-id", "x-redirected-url" >>

\* The identifier written over a missing or non-git user-agent.
ProxyUserAgent == << "g", "i", "t", "/", "@isomorphic-git/cors-proxy (bun)" >>

\* What the proxy substitutes when the caller sent no x-forwarded-for.
NoForwardedFor == << "0.0.0.0" >>

\* ------------------------------------------------------------ the runtime

Range(s) == { s[i] : i \in 1..Len(s) }

\* Array.prototype.join
RECURSIVE Join(_, _)
Join(s, sep) ==
  IF Len(s) = 0 THEN << >>
  ELSE IF Len(s) = 1 THEN << s[1] >>
  ELSE << s[1], sep >> \o Join(Tail(s), sep)

\* Headers keeps names case-insensitively: every name is stored lower-cased.
HeaderName(n) ==
  CASE n = "X-Forwarded-Proto" -> "x-forwarded-proto"
    [] n = "X-Forwarded-For" -> "x-forwarded-for"
    [] n = "X-Forwarded-Host" -> "x-forwarded-host"
    [] n = "User-Agent" -> "user-agent"
    [] n = "Access-Control-Allow-Origin" -> "access-control-allow-origin"
    [] n = "Access-Control-Allow-Methods" -> "access-control-allow-methods"
    [] n = "Access-Control-Allow-Headers" -> "access-control-allow-headers"
    [] n = "Access-Control-Expose-Headers" -> "access-control-expose-headers"
    [] n = "Access-Control-Max-Age" -> "access-control-max-age"
    [] OTHER -> n

EmptyHeaders == [n \in {} |-> << >>]

HeadersHas(h, n) == HeaderName(n) \in DOMAIN h

HeadersGet(h, n) == h[HeaderName(n)]

HeadersSet(h, n, v) ==
  [x \in DOMAIN h \cup {HeaderName(n)} |-> IF x = HeaderName(n) THEN v ELSE h[x]]

\* new Headers(record) / the headers member of a ResponseInit
HeadersOf(rec) == [x \in { HeaderName(k) : k \in DOMAIN rec } |->
                     rec[CHOOSE k \in DOMAIN rec : HeaderName(k) = x]]

\* JSON.stringify of an object of string members, keys in insertion order.
RECURSIVE Members(_)
Members(pairs) ==
  IF Len(pairs) = 0 THEN << >>
  ELSE << "\"", pairs[1][1], "\"", ":", "\"" >> \o pairs[1][2] \o << "\"" >>
       \o (IF Len(pairs) = 1 THEN << >> ELSE << "," >> \o Members(Tail(pairs)))

JSONStringify(pairs) == << "{" >> \o Members(pairs) \o << "}" >>

\* ------------------------------------------------------- corsHeaders, json

corsHeaders ==
  [n \in { "Access-Control-Allow-Origin", "Access-Control-Allow-Methods",
           "Access-Control-Allow-Headers", "Access-Control-Expose-Headers",
           "Access-Control-Max-Age" } |->
     CASE n = "Access-Control-Allow-Origin" -> << "*" >>
       [] n = "Access-Control-Allow-Methods" -> << "POST, GET, OPTIONS" >>
       [] n = "Access-Control-Allow-Headers" -> Join(ALLOW_HEADERS, ", ")
       [] n = "Access-Control-Expose-Headers" -> Join(EXPOSE_HEADERS, ", ")
       [] n = "Access-Control-Max-Age" -> << "86400" >>]

\* json(data, {status}): no caller passes init.headers, so the spread adds
\* nothing to the one content-type header.
json(data, status) ==
  [status  |-> status,
   headers |-> HeadersOf([n \in {"content-type"} |->
                            << "application/json; charset=utf-8" >>]),
   body    |-> JSONStringify(data)]

\* ------------------------------------------------------ request translator

\* url.pathname.replace(/^\//, '')
StripLeadingSlash(pathname) ==
  IF Len(pathname) > 0 /\ pathname[1] = "/" THEN Tail(pathname) ELSE pathname

\* The first index >= i of s that holds no "/", 0 when there is none: where
\* the unanchored regex starts to match.
RECURSIVE FirstNonSlash(_, _)
FirstNonSlash(s, i) ==
  IF i > Len(s) THEN 0
  ELSE IF s[i] # "/" THEN i
  ELSE FirstNonSlash(s, i + 1)

\* The last index of the run of non-"/" characters that starts at i: [^\/]+
\* is greedy and what follows it always matches, so it never gives back.
RECURSIVE RunEnd(_, _)
RunEnd(s, i) ==
  IF i + 1 <= Len(s) /\ s[i + 1] # "/" THEN RunEnd(s, i + 1) ELSE i

\* path.match(/([^\/]+)\/?(.*)/): matched is FALSE for null.  A URL's pathname
\* holds no line terminator, so (.*) takes everything that is left.
PathMatch(path) ==
  LET i == FirstNonSlash(path, 1) IN
  IF i = 0 THEN [matched |-> FALSE, g1 |-> << >>, g2 |-> << >>]
  ELSE LET j == RunEnd(path, i)
           k == IF j + 1 <= Len(path) /\ path[j + 1] = "/" THEN j + 2 ELSE j + 1
       IN [matched |-> TRUE,
           g1 |-> SubSeq(path, i, j),
           g2 |-> SubSeq(path, k, Len(path))]

\* Variant of targetURL that leaves the query string out.
targetURLWithoutQuery(req) ==
  LET parts == PathMatch(StripLeadingSlash(req.pathname)) IN
  << "https://" >> \o parts.g1 \o << "/" >> \o parts.g2

\* `https://${domain}/${remainingPath}${url.search}`
targetURL(req) ==
  LET parts == PathMatch(StripLeadingSlash(req.pathname)) IN
  << "https://" >> \o parts.g1 \o << "/" >> \o parts.g2 \o req.search

\* ------------------------------------------------------------ header filter

\* Variant of CopyAllowed that copies every inbound header.
CopyEveryHeader(names, from, to) ==
  [n \in DOMAIN from \cup DOMAIN to |-> IF n \in DOMAIN from THEN from[n] ELSE to[n]]

\* The loop over ALLOW_HEADERS.
RECURSIVE CopyAllowed(_, _, _)
CopyAllowed(names, from, to) ==
  IF Len(names) = 0 THEN to
  ELSE CopyAllowed(Tail(names), from,
                   IF HeadersHas(from, names[1])
                   THEN HeadersSet(to, names[1], HeadersGet(from, names[1]))
                   ELSE to)

\* url.protocol.replace(':', '')
RECURSIVE DropFirstColon(_)
DropFirstColon(s) ==
  IF Len(s) = 0 THEN << >>
  ELSE IF s[1] = ":" THEN Tail(s)
  ELSE << s[1] >> \o DropFirstColon(Tail(s))

ForwardingContext(req, h) ==
  HeadersSet(
    HeadersSet(
      HeadersSet(h, "X-Forwarded-Proto", DropFirstColon(req.protocol)),
      "X-Forwarded-For",
      IF HeadersHas(req.headers, "x-forwarded-for")
      THEN HeadersGet(req.headers, "x-forwarded-for") ELSE NoForwardedFor),
    "X-Forwarded-Host", req.host)

LowerCase(ch) ==
  CASE ch = "G" -> "g" [] ch = "I" -> "i" [] ch = "T" -> "t" [] OTHER -> ch

\* Variant of IsGitUA without the i flag.
IsGitUACaseSensitive(ua) ==
  Len(ua) >= 4 /\ SubSeq(ua, 1, 4) = << "g", "i", "t", "/" >>

\* /^git\//i.test(ua)
IsGitUA(ua) ==
  /\ Len(ua) >= 4
  /\ LowerCase(ua[1]) = "g"
  /\ LowerCase(ua[2]) = "i"
  /\ LowerCase(ua[3]) = "t"
  /\ ua[4] = "/"

\* if (!ua || !/^git\//i.test(ua)) fwdHeaders.set('User-Agent', ...)
NormalizeUA(h) ==
  IF \/ ~HeadersHas(h, "user-agent")
     \/ HeadersGet(h, "user-agent") = << >>
     \/ ~IsGitUA(HeadersGet(h, "user-agent"))
  THEN HeadersSet(h, "User-Agent", ProxyUserAgent)
  ELSE h

fwdHeaders(req) ==
  NormalizeUA(ForwardingContext(req, CopyAllowed(ALLOW_HEADERS, req.headers, EmptyHeaders)))

\* The RequestInit and URL handed to fetch.
FetchCall(req) ==
  [url     |-> targetURL(req),
   method  |-> req.method,
   headers |-> fwdHeaders(req),
   body    |-> req.method # "GET" /\ req.method # "HEAD"]

\* Variant of CopyExposed without the content-length exception.
RECURSIVE CopyExposedWithLength(_, _, _)
CopyExposedWithLength(names, from, to) ==
  IF Len(names) = 0 THEN to
  ELSE CopyExposedWithLength(Tail(names), from,
                             IF HeadersHas(from, names[1])
                             THEN HeadersSet(to, names[1], HeadersGet(from, names[1]))
                             ELSE to)

\* The loop over EXPOSE_HEADERS.
RECURSIVE CopyExposed(_, _, _)
CopyExposed(names, from, to) ==
  IF Len(names) = 0 THEN to
  ELSE CopyExposed(Tail(names), from,
                   IF names[1] # "content-length" /\ HeadersHas(from, names[1])
                   THEN HeadersSet(to, names[1], HeadersGet(from, names[1]))
                   ELSE to)

outHeaders(up) ==
  LET copied == CopyExposed(EXPOSE_HEADERS, up.headers, HeadersOf(corsHeaders)) IN
  IF up.redirected THEN HeadersSet(copied, "x-redirected-url", up.url) ELSE copied

\* ------------------------------------------------------------- responses

\* Variant of PreflightResponse that answers 204 No Content.
PreflightResponseNoContent ==
  [status |-> 204, headers |-> HeadersOf(corsHeaders), body |-> << >>]

PreflightResponse ==
  [status |-> 200, headers |-> HeadersOf(corsHeaders), body |-> << >>]

EmptyPathResponse ==
  json(<< << "error", << "Invalid proxy URL format" >> >> >>, 400)

\* Variant of InvalidPathResponse with the message of the empty path.
InvalidPathResponseSameMessage ==
  json(<< << "error", << "Invalid proxy URL format" >> >> >>, 400)

InvalidPathResponse ==
  json(<< << "error", << "Invalid path format" >> >> >>, 400)

\* err instanceof Error ? err.message : 'Unknown error'
ErrMessage(err) == IF err.isError THEN err.message ELSE << "Unknown error" >>

\* Variant of FetchErrorResponse without the attempted URL.
FetchErrorResponseWithoutUrl(req, err) ==
  json(<< << "error", << "Proxy error" >> >>,
          << "message", ErrMessage(err) >> >>, 500)

FetchErrorResponse(req, err) ==
  json(<< << "error", << "Proxy error" >> >>,
          << "message", ErrMessage(err) >>,
          << "url", targetURL(req) >> >>, 500)

FatalResponse(err) ==
  json(<< << "error", << "Proxy error" >> >>,
          << "message", ErrMessage(err) >> >>, 500)

RelayResponse(up) ==
  [status |-> up.status, statusText |-> up.statusText,
   headers |-> outHeaders(up), body |-> up.body]

\* ------------------------------------------------------------ environment

\* Connections the server handles at once (Bun.serve calls fetch per request).
NumConns == 2

Conns == 1..NumConns

PathChars == { "/", "a" }

Paths == UNION { [1..n -> PathChars] : n \in 0..MaxPathLen }

Methods == { "OPTIONS", "GET", "HEAD", "POST" }

\* url.search: empty, or the query with its leading "?".
Searches == { << >>, << "?", "x=1" >> }

\* User-agents a caller may send (besides sending none).
UserAgents ==
  { << >>,
    << "g", "i", "t", "/", "2" >>,
    << "G", "i", "T", "/", "2" >>,
    << "g", "i", "t" >>,
    << "c", "u", "r", "l", "/", "8" >> }

\* Inbound headers that a caller may or may not send, besides user-agent.
OptionalInbound == { "range", "cookie", "x-forwarded-for" }

InboundValue(n) ==
  CASE n = "host" -> << "localhost:3000" >>
    [] n = "range" -> << "bytes=0-10" >>
    [] n = "cookie" -> << "session=1" >>
    [] n = "x-forwarded-for" -> << "203.0.113.7" >>
    [] OTHER -> << "client value" >>

\* request.headers, values as Headers.get returns them: host is always there,
\* ua is << >> (none) or << value >>.
InboundHeaders(sent, ua) ==
  [n \in {"host"} \cup sent \cup (IF ua = << >> THEN {} ELSE {"user-agent"}) |->
     IF n = "user-agent" THEN ua[1] ELSE InboundValue(n)]

MakeRequest(method, path, search, sent, ua) ==
  [method   |-> method,
   pathname |-> << "/" >> \o path,
   search   |-> search,
   protocol |-> << "http", ":" >>,
   host     |-> << "localhost:3000" >>,
   headers  |-> InboundHeaders(sent, ua)]

Requests ==
  { MakeRequest(m, p, q, sent, ua) :
      m \in Methods, p \in Paths, q \in Searches,
      sent \in SUBSET OptionalInbound,
      ua \in {<< >>} \cup { << v >> : v \in UserAgents } }

\* The few requests the concurrent specification sends on every connection.
ConcRequests ==
  { MakeRequest(m, p, << >>, {}, << >>) :
      m \in { "OPTIONS", "GET", "POST" },
      p \in { << >>, << "/" >>, << "a", "/", "a" >> } }

\* Response headers an upstream may or may not send.
OptionalUpstream ==
  { "etag", "content-length", "set-cookie", "access-control-allow-origin" }

UpstreamValue(n) ==
  CASE n = "etag" -> << "W/1" >>
    [] n = "content-length" -> << "42" >>
    [] n = "set-cookie" -> << "id=7" >>
    [] n = "access-control-allow-origin" -> << "https://up.example" >>
    [] OTHER -> << "upstream value" >>

NullBody == << >>

StatusText(status) ==
  CASE status = 200 -> << "OK" >>
    [] status = 204 -> << "No Content" >>
    [] status = 400 -> << "Bad Request" >>
    [] OTHER -> << >>

MakeUpstream(status, body, sent, redirected) ==
  [status     |-> status,
   statusText |-> StatusText(status),
   headers    |-> [n \in sent |-> UpstreamValue(n)],
   redirected |-> redirected,
   url        |-> << "https://", "final.example", "/" >>,
   body       |-> body]

\* What fetch may resolve to.  Whether the runtime hands out a null body or
\* an empty stream for a 204 is left open.
UpstreamResponses ==
  { MakeUpstream(sb[1], sb[2], sent, r) :
      sb \in { << 200, << "bytes" >> >>, << 400, << "bytes" >> >>,
               << 204, NullBody >>, << 204, << "" >> >> },
      sent \in SUBSET OptionalUpstream, r \in BOOLEAN }

ConcUpstreamResponses ==
  { MakeUpstream(sb[1], sb[2], {}, FALSE) :
      sb \in { << 200, << "bytes" >> >>, << 204, NullBody >>, << 204, << "" >> >> } }

\* What fetch may reject with: it rejects with Error objects.
FetchErrors ==
  { [isError |-> TRUE, message |-> << "getaddrinfo ENOTFOUND" >>],
    [isError |-> TRUE, message |-> << "ECONNREFUSED" >>] }

\* new Response(body, {status}) throws a TypeError for a body with a status
\* that allows none.
NullBodyStatus == { 101, 103, 204, 205, 304 }

ResponseThrows(up) == up.status \in NullBodyStatus /\ up.body # NullBody

ResponseError ==
  [isError |-> TRUE, message |-> << "Response with null body status cannot have body" >>]

\* ------------------------------------------------------------------ state

VARIABLES
  pc,         \* per connection: "idle", "awaiting" (the fetch), "done"
  request,    \* per connection: the requests received
  fetched,    \* per connection: the calls of fetch made for it
  outcome,    \* per connection: what those calls resolved or rejected with
  responses   \* per connection: the responses returned to the caller

vars == << pc, request, fetched, outcome, responses >>

Init ==
  /\ pc = [c \in Conns |-> "idle"]
  /\ request = [c \in Conns |-> << >>]
  /\ fetched = [c \in Conns |-> << >>]
  /\ outcome = [c \in Conns |-> << >>]
  /\ responses = [c \in Conns |-> << >>]

Respond(c, resp) ==
  /\ responses' = [responses EXCEPT ![c] = Append(@, resp)]
  /\ pc' = [pc EXCEPT ![c] = "done"]

Path(req) == StripLeadingSlash(req.pathname)

\* handleProxyRequest, the CORS preflight.
Preflight(c, reqs) ==
  /\ pc[c] = "idle"
  /\ \E req \in reqs :
       /\ req.method = "OPTIONS"
       /\ request' = [request EXCEPT ![c] = Append(@, req)]
       /\ Respond(c, PreflightResponse)
  /\ UNCHANGED << fetched, outcome >>

\* handleProxyRequest, if (!path).
RejectEmptyPath(c, reqs) ==
  /\ pc[c] = "idle"
  /\ \E req \in reqs :
       /\ req.method # "OPTIONS"
       /\ Path(req) = << >>
       /\ request' = [request EXCEPT ![c] = Append(@, req)]
       /\ Respond(c, EmptyPathResponse)
  /\ UNCHANGED << fetched, outcome >>

\* handleProxyRequest, if (!parts).
RejectInvalidPath(c, reqs) ==
  /\ pc[c] = "idle"
  /\ \E req \in reqs :
       /\ req.method # "OPTIONS"
       /\ Path(req) # << >>
       /\ ~PathMatch(Path(req)).matched
       /\ request' = [request EXCEPT ![c] = Append(@, req)]
       /\ Respond(c, InvalidPathResponse)
  /\ UNCHANGED << fetched, outcome >>

\* handleProxyRequest up to its await: the call of fetch.
Forward(c, reqs) ==
  /\ pc[c] = "idle"
  /\ \E req \in reqs :
       /\ req.method # "OPTIONS"
       /\ Path(req) # << >>
       /\ PathMatch(Path(req)).matched
       /\ request' = [request EXCEPT ![c] = Append(@, req)]
       /\ fetched' = [fetched EXCEPT ![c] = Append(@, FetchCall(req))]
  /\ pc' = [pc EXCEPT ![c] = "awaiting"]
  /\ UNCHANGED << outcome, responses >>

\* Variant of FetchRejected that calls fetch a second time before giving up.
FetchRejectedRetry(c, errs) ==
  /\ pc[c] = "awaiting"
  /\ \E err \in errs :
       /\ outcome' = [outcome EXCEPT ![c] = Append(@, [kind |-> "error", err |-> err])]
       /\ IF Len(fetched[c]) < 2
          THEN /\ fetched' = [fetched EXCEPT ![c] = Append(@, FetchCall(request[c][1]))]
               /\ UNCHANGED << pc, responses >>
          ELSE /\ Respond(c, FetchErrorResponse(request[c][1], err))
               /\ UNCHANGED fetched
  /\ UNCHANGED request

\* fetch rejected: the catch around it.
FetchRejected(c, errs) ==
  /\ pc[c] = "awaiting"
  /\ \E err \in errs :
       /\ outcome' = [outcome EXCEPT ![c] = Append(@, [kind |-> "error", err |-> err])]
       /\ Respond(c, FetchErrorResponse(request[c][1], err))
  /\ UNCHANGED << request, fetched >>

\* fetch resolved: the rest of handleProxyRequest.
Relay(c, ups) ==
  /\ pc[c] = "awaiting"
  /\ \E up \in ups :
       /\ ~ResponseThrows(up)
       /\ outcome' = [outcome EXCEPT ![c] = Append(@, [kind |-> "response", up |-> up])]
       /\ Respond(c, RelayResponse(up))
  /\ UNCHANGED << request, fetched >>

\* Variant of Fatal without the catch of Bun.serve's fetch: the handler's
\* promise rejects and nothing is returned.
FatalUncaught(c, ups) ==
  /\ pc[c] = "awaiting"
  /\ \E up \in ups :
       /\ ResponseThrows(up)
       /\ outcome' = [outcome EXCEPT ![c] = Append(@, [kind |-> "response", up |-> up])]
  /\ pc' = [pc EXCEPT ![c] = "rejected"]
  /\ UNCHANGED << request, fetched, responses >>

\* fetch resolved and building the response throws: the catch of Bun.serve's
\* fetch.
Fatal(c, ups) ==
  /\ pc[c] = "awaiting"
  /\ \E up \in ups :
       /\ ResponseThrows(up)
       /\ outcome' = [outcome EXCEPT ![c] = Append(@, [kind |-> "response", up |-> up])]
       /\ Respond(c, FatalResponse(ResponseError))
  /\ UNCHANGED << request, fetched >>

\* One connection, every request and every upstream answer.
Next ==
  \/ Preflight(1, Requests)
  \/ RejectEmptyPath(1, Requests)
  \/ RejectInvalidPath(1, Requests)
  \/ Forward(1, Requests)
  \/ FetchRejected(1, FetchErrors)
  \/ Relay(1, UpstreamResponses)
  \/ Fatal(1, UpstreamResponses)

Spec == Init /\ [][Next]_vars

\* Every connection at once, a few requests and upstream answers.
ConcNext ==
  \E c \in Conns :
    \/ Preflight(c, ConcRequests)
    \/ RejectEmptyPath(c, ConcRequests)
    \/ RejectInvalidPath(c, ConcRequests)
    \/ Forward(c, ConcRequests)
    \/ FetchRejected(c, FetchErrors)
    \/ Relay(c, ConcUpstreamResponses)
    \/ Fatal(c, ConcUpstreamResponses)

\* The runtime runs every handler it started, and the upstream call returns
\* or fails.
Fairness ==
  \A c \in Conns :
    WF_vars(\/ FetchRejected(c, FetchErrors)
            \/ Relay(c, ConcUpstreamResponses)
            \/ Fatal(c, ConcUpstreamResponses))

FairSpec == Init /\ [][ConcNext]_vars /\ Fairness

\* ------------------------------------------------------------- the claims

Req(c) == request[c][1]

Resp(c) == responses[c][1]

Received(c) == Len(request[c]) = 1

Answered(c) == Len(responses[c]) = 1

Forwarded(c) == Len(fetched[c]) >= 1

\* The request path with its one leading separator taken off.
StrippedPath(req) == SubSeq(req.pathname, 2, Len(req.pathname))

Separators(s) == { i \in 1..Len(s) : s[i] = "/" }

FirstSeparator(s) == CHOOSE i \in Separators(s) : \A j \in Separators(s) : i <= j

BeforeFirstSeparator(s) ==
  IF Separators(s) = {} THEN s ELSE SubSeq(s, 1, FirstSeparator(s) - 1)

AfterFirstSeparator(s) ==
  IF Separators(s) = {} THEN << >> ELSE SubSeq(s, FirstSeparator(s) + 1, Len(s))

OnlySeparators(s) == \A i \in 1..Len(s) : s[i] = "/"

\* s without the separators it starts with.
RECURSIVE SkipSeparators(_)
SkipSeparators(s) ==
  IF Len(s) > 0 /\ s[1] = "/" THEN SkipSeparators(Tail(s)) ELSE s

UpstreamURL(s, query) ==
  << "https://" >> \o BeforeFirstSeparator(s) \o << "/" >>
    \o AfterFirstSeparator(s) \o query

\* C1 as stated: the upstream URL of every forwarded request is
\* https://{domain}/{remainder}{query}, domain being the part of the stripped
\* path before its first separator and remainder everything after it.
C1_UrlSplitsAtFirstSeparator ==
  \A c \in Conns :
    Forwarded(c) =>
      fetched[c][1].url = UpstreamURL(StrippedPath(Req(c)), Req(c).search)

\* C1 amended: every non-OPTIONS request whose stripped path holds a character
\* other than the separator is forwarded to https://{domain}/{remainder}{query},
\* where separators at the start of the stripped path are skipped, domain is
\* what then precedes the next separator, remainder is everything after that
\* separator (empty when there is none) and query is the query string unchanged.
C1_UrlSplitsAfterLeadingSeparators ==
  \A c \in Conns :
    (Received(c) /\ Req(c).method # "OPTIONS" /\ ~OnlySeparators(StrippedPath(Req(c)))) =>
      /\ Forwarded(c)
      /\ fetched[c][1].url =
           UpstreamURL(SkipSeparators(StrippedPath(Req(c))), Req(c).search)

\* A request for //a/a?x=1 has been forwarded.
C1_Witness ==
  \E c \in Conns :
    /\ Forwarded(c)
    /\ StrippedPath(Req(c)) = << "/", "a", "/" >>
    /\ Req(c).search # << >>

ForwardingContextNames == { "x-forwarded-proto", "x-forwarded-for", "x-forwarded-host" }

\* C2 as stated: no inbound header outside the allowlist (cookie, host,
\* x-forwarded-for, ...) appears among the outbound request headers.
C2_OnlyAllowlistedForwarded ==
  \A c \in Conns :
    Forwarded(c) =>
      \A n \in DOMAIN Req(c).headers :
        n \notin Range(ALLOW_HEADERS) => n \notin DOMAIN fetched[c][1].headers

\* C2 amended: every outbound header is an allowlisted header or one of the
\* three forwarding-context headers, so an inbound header outside both (cookie,
\* host) never appears; an inbound x-forwarded-for is passed on unchanged.
C2_AllowlistedOrForwardingContext ==
  \A c \in Conns :
    Forwarded(c) =>
      /\ DOMAIN fetched[c][1].headers \subseteq
           Range(ALLOW_HEADERS) \cup ForwardingContextNames
      /\ \A n \in DOMAIN Req(c).headers :
           n \notin Range(ALLOW_HEADERS) \cup ForwardingContextNames =>
             n \notin DOMAIN fetched[c][1].headers
      /\ "x-forwarded-for" \in DOMAIN Req(c).headers =>
           fetched[c][1].headers["x-forwarded-for"] = Req(c).headers["x-forwarded-for"]

\* A request with a cookie, a range and an x-forwarded-for has been forwarded.
C2_Witness ==
  \E c \in Conns :
    /\ Forwarded(c)
    /\ { "cookie", "range", "x-forwarded-for" } \subseteq DOMAIN Req(c).headers
    /\ "range" \in DOMAIN fetched[c][1].headers

Relayed(c) ==
  /\ Answered(c)
  /\ "statusText" \in DOMAIN Resp(c)
  /\ Len(outcome[c]) = 1
  /\ outcome[c][1].kind = "response"
  /\ Resp(c).status = outcome[c][1].up.status
  /\ Resp(c).body = outcome[c][1].up.body

\* C3: a header of the upstream response shows in the relayed response only
\* under a name of the exposelist other than content-length.
C3_OnlyExposedRelayed ==
  \A c \in Conns :
    Relayed(c) =>
      \A n \in DOMAIN outcome[c][1].up.headers :
        (/\ n \in DOMAIN Resp(c).headers
         /\ Resp(c).headers[n] = outcome[c][1].up.headers[n])
        => n \in Range(EXPOSE_HEADERS) \ { "content-length" }

\* An upstream response with etag, content-length and set-cookie was relayed,
\* and its etag came through.
C3_Witness ==
  \E c \in Conns :
    /\ Relayed(c)
    /\ { "etag", "content-length", "set-cookie", "access-control-allow-origin" }
         \subseteq DOMAIN outcome[c][1].up.headers
    /\ "etag" \in DOMAIN Resp(c).headers

HasCorsHeaders(h) ==
  /\ { "access-control-allow-origin", "access-control-allow-methods",
       "access-control-allow-headers", "access-control-expose-headers",
       "access-control-max-age" } \subseteq DOMAIN h
  /\ h["access-control-allow-origin"] = << "*" >>
  /\ h["access-control-max-age"] = << "86400" >>

\* C4: every response carries the five CORS headers.
C4_EveryResponseHasCors ==
  \A c \in Conns : Answered(c) => HasCorsHeaders(Resp(c).headers)

\* C5: an OPTIONS request, whatever its path, causes no upstream call and is
\* answered 200 with the CORS headers only and an empty body.
C5_PreflightShortCircuits ==
  \A c \in Conns :
    (Received(c) /\ Req(c).method = "OPTIONS") =>
      /\ fetched[c] = << >>
      /\ Answered(c)
      /\ Resp(c).status = 200
      /\ HasCorsHeaders(Resp(c).headers)
      /\ Cardinality(DOMAIN Resp(c).headers) = 5
      /\ Resp(c).body = << >>

\* An OPTIONS request for a path of separators only has been answered.
C5_Witness ==
  \E c \in Conns :
    /\ Answered(c)
    /\ Req(c).method = "OPTIONS"
    /\ StrippedPath(Req(c)) = << "/", "/" >>

ErrorBody(text) ==
  << "{", "\"", "error", "\"", ":", "\"", text, "\"", "}" >>

Malformed(req) == req.method # "OPTIONS" /\ OnlySeparators(StrippedPath(req))

\* What C6 says of a malformed path: 400, the message, no upstream call.
MalformedRejected(c) ==
  (Received(c) /\ Malformed(Req(c))) =>
    /\ fetched[c] = << >>
    /\ Answered(c)
    /\ Resp(c).status = 400
    /\ Resp(c).body = IF StrippedPath(Req(c)) = << >>
                      THEN ErrorBody("Invalid proxy URL format")
                      ELSE ErrorBody("Invalid path format")

\* C6 as stated: a non-OPTIONS request with a malformed path is answered 400
\* with its message and without an upstream call, and no other request is
\* answered 400.
C6_Only400ForMalformed ==
  \A c \in Conns :
    /\ MalformedRejected(c)
    /\ (Answered(c) /\ Resp(c).status = 400) => Malformed(Req(c))

\* C6 amended: ... and every other request answered 400 was forwarded and is
\* answered with the upstream's own 400 response.
C6_Only400ForMalformedOrUpstream ==
  \A c \in Conns :
    /\ MalformedRejected(c)
    /\ (Answered(c) /\ Resp(c).status = 400 /\ ~Malformed(Req(c))) =>
         /\ Forwarded(c)
         /\ Relayed(c)
         /\ outcome[c][1].up.status = 400

\* A request whose stripped path is "/" has been answered.
C6_Witness ==
  \E c \in Conns :
    /\ Answered(c)
    /\ Req(c).method = "GET"
    /\ StrippedPath(Req(c)) = << "/" >>

FetchFailed(c) == Len(outcome[c]) >= 1 /\ outcome[c][1].kind = "error"

\* C7: a failed fetch is answered 500 with error "Proxy error", the failure's
\* message and the upstream URL that was attempted.
C7_FetchFailureEnvelope ==
  \A c \in Conns :
    FetchFailed(c) =>
      /\ Answered(c)
      /\ Resp(c).status = 500
      /\ Resp(c).body =
           << "{", "\"", "error", "\"", ":", "\"", "Proxy error", "\"", ",",
              "\"", "message", "\"", ":", "\"" >>
           \o outcome[c][1].err.message
           \o << "\"", ",", "\"", "url", "\"", ":", "\"" >>
           \o fetched[c][1].url
           \o << "\"", "}" >>

\* The fetch of a request with a query string has failed.
C7_Witness ==
  \E c \in Conns :
    /\ FetchFailed(c)
    /\ Answered(c)
    /\ Req(c).search # << >>

\* C8: a request causes at most one call of fetch; a failed call is answered
\* with an error and not repeated; OPTIONS and 400 answers cause none.
C8_AtMostOneFetch ==
  \A c \in Conns :
    /\ Len(fetched[c]) <= 1
    /\ FetchFailed(c) => (Answered(c) /\ Resp(c).status = 500 /\ Len(fetched[c]) = 1)
    /\ (Received(c) /\ (Req(c).method = "OPTIONS" \/ Malformed(Req(c)))) =>
         Len(fetched[c]) = 0

\* A fetch has failed and its request is answered.
C8_Witness ==
  \E c \in Conns :
    /\ FetchFailed(c)
    /\ pc[c] = "done"
    /\ Len(fetched[c]) = 1

FatalBody ==
  << "{", "\"", "error", "\"", ":", "\"", "Proxy error", "\"", ",",
     "\"", "message", "\"", ":", "\"" >>
  \o ResponseError.message \o << "\"", "}" >>

Threw(c) ==
  /\ Len(outcome[c]) = 1
  /\ outcome[c][1].kind = "response"
  /\ outcome[c][1].up.status = 204
  /\ outcome[c][1].up.body # << >>

\* C9: every request received is eventually answered, never more than once;
\* an exception in the pipeline is answered with the 500 "Proxy error"
\* envelope; a connection that waits for its upstream does not keep another
\* from being served.
C9_EveryRequestAnswered ==
  /\ [](\A c \in Conns :
          /\ Len(responses[c]) <= 1
          /\ Threw(c) => (Answered(c) /\ Resp(c).status = 500 /\ Resp(c).body = FatalBody)
          /\ pc[c] = "idle" => ENABLED Preflight(c, ConcRequests))
  /\ \A c \in Conns : Received(c) ~> (Answered(c) /\ pc[c] = "done")

\* Building the response threw on one connection, which is answered, while
\* another connection still waits for its upstream.
C9_Witness ==
  \E c, d \in Conns :
    /\ Threw(c)
    /\ Answered(c)
    /\ pc[d] = "awaiting"

\* Starts with git/, letters compared without regard to case.
StartsWithGit(ua) ==
  /\ Len(ua) >= 4
  /\ SubSeq(ua, 1, 4) \in
       { << g, i, t, "/" >> : g \in {"g", "G"}, i \in {"i", "I"}, t \in {"t", "T"} }

\* C10: the outbound user-agent is the inbound one when that starts with git/
\* (case-insensitively) and the proxy's identifier otherwise; so it always
\* starts with git/.
C10_UserAgentNormalized ==
  \A c \in Conns :
    Forwarded(c) =>
      /\ "user-agent" \in DOMAIN fetched[c][1].headers
      /\ fetched[c][1].headers["user-agent"] =
           IF /\ "user-agent" \in DOMAIN Req(c).headers
              /\ StartsWithGit(Req(c).headers["user-agent"])
           THEN Req(c).headers["user-agent"]
           ELSE ProxyUserAgent
      /\ StartsWithGit(fetched[c][1].headers["user-agent"])

\* A request with the user-agent GiT/2 has been forwarded with it.
C10_Witness ==
  \E c \in Conns :
    /\ Forwarded(c)
    /\ "user-agent" \in DOMAIN Req(c).headers
    /\ Req(c).headers["user-agent"] = << "G", "i", "T", "/", "2" >>
    /\ fetched[c][1].headers["user-agent"] = << "G", "i", "T", "/", "2" >>

====
